---- MODULE Spec2Model ----
(***************************************************************************)
(* Model of get_monthly_contributions.py: the query executor               *)
(* (graphql_query), the GraphQL paginators (query_prs, query_issues,       *)
(* query_org_repos_from_name), the incremental aggregator (main) and the   *)
(* persisted dataset (load_existing_data / write_out_data).                *)
(*                                                                         *)
(* Time is counted in days since 2013-01-01; every timestamp and every     *)
(* ISO date string is the number of its day.  A month key 'YYYY-MM' is the *)
(* number of the month, DaysPerMonth days each.                            *)
(*                                                                         *)
(* A cursor is the offset of the last node of the page it ends; 'null' is  *)
(* offset 0.  A query carries one $reviews_cursor and one $comments_cursor *)
(* and the API applies them to every pull request of the outer page, as    *)
(* the query text of PR_QUERY has it.                                      *)
(*                                                                         *)
(* Spec          the collector run again and again on a growing remote     *)
(*               history, killed at any step                               *)
(* SpecCompleted the same, no process is ever killed                       *)
(* SpecPrs       one call of query_prs on each of a set of histories       *)
(* SpecIssues    one call of query_issues on each of a set of histories    *)
(* SpecOrg       one call of query_org_repos_from_name on each of a set of *)
(*               organizations                                             *)
(* SpecQuery     one call of graphql_query, the network answering as it    *)
(*               likes                                                     *)
(* SpecClock     the runs of SpecCompleted, the remote history growing and *)
(*               midnight passing also while a process runs                *)
(***************************************************************************)
EXTENDS Integers, Sequences, FiniteSets, TLC

\* ---------------------------------------------------------------- bounds
MaxPRs == 3         \* pull requests of a repository (paginator histories)
MaxReviews == 3     \* reviews of one pull request
MaxComments == 3    \* comments of one pull request / issue
MaxIssues == 3      \* issues of a repository (paginator histories)
MaxQueries == 12    \* queries of one walk followed (a longer walk never ends)
MaxRecords == 2     \* records of the remote history the runs work on
MaxRunItems == 1    \* pull requests, and issues, of a repository there
MaxRunNested == 1   \* reviews, and comments, of one of them there
MaxDay == 2         \* the last day
MaxRuns == 3        \* collector processes started on well-formed options
MaxOrgRepos == 5    \* repositories of an organization (paginator histories)
MaxAttempts == 6    \* passes of the loop of graphql_query followed

\* `first: 100` of the three queries, scaled down to 2 items per page
PageSize == 2
\* time.sleep(10) after a failed HTTP call, time.sleep(1 * 60) after a status
TransportSleep == 10
StatusSleep == 60
\* the days of a calendar month, scaled down to 2
DaysPerMonth == 2
\* '2013-01-01'
Epoch == 0

\* ------------------------------------------------------------ null values
\* JSON null of an author object / Python None
None == "None"
\* JSON null of submittedAt (a started, uncompleted review)
NoDate == 0 - 1
\* the literal 'null' every cursor starts from: "after: null" is offset 0
null == 0

Logins == {"alice", "bob"}
Repos == {"acme/widgets", "acme/gears"}

Min(a, b) == IF a < b THEN a ELSE b

RECURSIVE SumLen(_, _)
SumLen(items, field) ==
    IF items = <<>> THEN 0 ELSE Len(Head(items)[field]) + SumLen(Tail(items), field)

VARIABLES
    remote,     \* the remote history: repo -> [prs, issues]
    now,        \* the day it is
    directory,  \* the repositories of the organizations: org -> list
    file,       \* the file at the output path
    tmp,        \* the temporary file of write_out_data, next to it
    pc,         \* where the collector is ("idle": no process)
    options,    \* main: options.repos and options.orgs
    today,      \* main: today
    output_data, \* main: output_data
    todo,       \* main: the repositories the loops have not reached yet
    full_repo_name, \* main: the repository being processed
    last_updated, \* main: the date handed to both queries
    qp,         \* the frame of query_prs: its locals, and the queries issued
    qi,         \* the frame of query_issues
    qo,         \* the frame of query_org_repos_from_name
    gq,         \* the frame of graphql_query
    runs,       \* the collector processes started on well-formed options
    loaded,     \* history: the file as it was when the run started
    calls,      \* history: the queries of this run, <<query, repository, date>>
    attempt     \* history: the first start since the last completed run

env == <<remote, now>>
frame == <<options, today, output_data, todo, full_repo_name, last_updated>>
hist == <<runs, loaded, calls, attempt>>
\* what the walks of one repository leave alone
apart == <<directory, tmp, qo, gq>>
vars == <<remote, now, directory, file, tmp, pc, options, today, output_data,
          todo, full_repo_name, last_updated, qp, qi, qo, gq, runs, loaded,
          calls, attempt>>

\* ------------------------------------------------------- the remote API
\* One page of a connection: the nodes after offset `after`, PageSize at most.
Connection(list, after) ==
    LET last == Min(after + PageSize, Len(list)) IN
    [nodes |-> SubSeq(list, after + 1, last),
     pageInfo |-> [hasNextPage |-> after + PageSize < Len(list),
                   endCursor |-> last]]

\* The items of a search "created:>=$last_updated", in the search's order.
Created(items, since) == SelectSeq(items, LAMBDA it: it.createdAt >= since)

\* The response to PR_QUERY: response['data']['search'].
PR_QUERY(repo_name, cursor, reviews_cursor, since, comments_cursor) ==
    LET page == Connection(Created(remote[repo_name].prs, since), cursor) IN
    [pageInfo |-> page.pageInfo,
     nodes |-> [i \in 1..Len(page.nodes) |->
        [id |-> page.nodes[i].id,
         createdAt |-> page.nodes[i].createdAt,
         author |-> page.nodes[i].author,
         reviews |-> Connection(page.nodes[i].reviews, reviews_cursor),
         comments |-> Connection(page.nodes[i].comments, comments_cursor)]]]

\* The response to ISSUE_QUERY.
ISSUE_QUERY(repo_name, cursor, since, comments_cursor) ==
    LET page == Connection(Created(remote[repo_name].issues, since), cursor) IN
    [pageInfo |-> page.pageInfo,
     nodes |-> [i \in 1..Len(page.nodes) |->
        [id |-> page.nodes[i].id,
         createdAt |-> page.nodes[i].createdAt,
         author |-> page.nodes[i].author,
         comments |-> Connection(page.nodes[i].comments, comments_cursor)]]]

\* The response to ORG_QUERY: response['data']['organization']['repositories'].
ORG_QUERY(org_name, cursor) == Connection(directory[org_name], cursor)

\* -------------------------------------------------------- graphql_query
\* the exceptions of requests.post the except clause names
Caught == {"ValueError", "InvalidChunkLength", "ProtocolError", "ChunkedEncodingError"}

\* what one requests.post can end with: an exception, or a response
Raises(exception) == [raises |-> exception, status_code |-> 0]

Responds(status_code) == [raises |-> None, status_code |-> status_code]

\* the locals of graphql_query before its loop
GraphqlStart(query) ==
    [pc |-> "post", query |-> query, posted |-> None, attempts |-> 0,
     slept |-> 0, result |-> None]

\* one pass of "while True": the post, and what is done with its outcome
GraphqlPass(f, reply) ==
    LET sent == [f EXCEPT !.attempts = @ + 1, !.posted = f.query] IN
    IF reply.raises \in Caught THEN [sent EXCEPT !.slept = @ + TransportSleep]
    ELSE IF reply.raises # None
         THEN [sent EXCEPT !.pc = "raised", !.result = reply.raises]
    ELSE IF reply.status_code # 200 THEN [sent EXCEPT !.slept = @ + StatusSleep]
    ELSE [sent EXCEPT !.pc = "returned", !.result = "response.json()"]

\* ------------------------------------------------------ collected records
Review(login, submitted_at) == [login |-> login, submitted_at |-> submitted_at]

Comment(login, created_at) == [login |-> login, created_at |-> created_at]

PullRequest(login, created_at) ==
    [login |-> login, created_at |-> created_at, reviews |-> <<>>, comments |-> <<>>]

Issue(login, created_at) ==
    [login |-> login, created_at |-> created_at, comments |-> <<>>]

\* {}
EmptyDict == [k \in {} |-> 0]

\* dict[key] = value
Put(dict, key, value) ==
    [k \in DOMAIN dict \cup {key} |-> IF k = key THEN value ELSE dict[k]]

\* a mutant: an entry already recorded is kept and appended to
KeepPullRequest(pull_requests, pr_id, login, created_at) ==
    IF pr_id \in DOMAIN pull_requests THEN pull_requests
    ELSE Put(pull_requests, pr_id, PullRequest(login, created_at))

\* pull_requests[pr_id] = PullRequest(pr_author['login'], pr['createdAt'])
StorePullRequest(pull_requests, pr_id, login, created_at) ==
    Put(pull_requests, pr_id, PullRequest(login, created_at))

\* issues[issue_id] = Issue(issue_author['login'], issue['createdAt'])
StoreIssue(issues, issue_id, login, created_at) ==
    Put(issues, issue_id, Issue(login, created_at))

\* a mutant: the loop over the reviews ends at the first null record
\* (break where the code has continue)
RECURSIVE AddedReviewsUntilNull(_)
AddedReviewsUntilNull(nodes) ==
    IF nodes = <<>> \/ Head(nodes).author = None \/ Head(nodes).submittedAt = NoDate
    THEN <<>>
    ELSE <<Review(Head(nodes).author, Head(nodes).submittedAt)>>
            \o AddedReviewsUntilNull(Tail(nodes))

\* the reviews of a page that add_review is called for, in order
AddedReviews(nodes) ==
    LET kept == SelectSeq(nodes, LAMBDA r: r.author # None /\ r.submittedAt # NoDate)
    IN [i \in 1..Len(kept) |-> Review(kept[i].author, kept[i].submittedAt)]

\* the comments of a page that add_comment is called for, in order
AddedComments(nodes) ==
    LET kept == SelectSeq(nodes, LAMBDA c: c.author # None)
    IN [i \in 1..Len(kept) |-> Comment(kept[i].author, kept[i].createdAt)]

\* ------------------------------------------------------------- query_prs
\* the locals of query_prs before its loop
PrsStart ==
    [cursor |-> null, reviews_cursor |-> null, comments_cursor |-> null,
     has_next_page |-> TRUE, pull_requests |-> EmptyDict, queries |-> 0]

\* the body of "for pr in results['nodes']" for one node
PrsNode(f, pr) ==
    IF pr.author = None THEN f
    ELSE
      LET stored == StorePullRequest(f.pull_requests, pr.id, pr.author, pr.createdAt)
          withReviews ==
            [stored EXCEPT ![pr.id].reviews = @ \o AddedReviews(pr.reviews.nodes)]
      IN IF pr.reviews.pageInfo.hasNextPage
         THEN [f EXCEPT !.pull_requests = withReviews,
                        !.reviews_cursor = pr.reviews.pageInfo.endCursor]
         ELSE [f EXCEPT
                 !.pull_requests =
                    [withReviews EXCEPT
                       ![pr.id].comments = @ \o AddedComments(pr.comments.nodes)],
                 !.reviews_cursor = null,
                 !.comments_cursor =
                    IF pr.comments.pageInfo.hasNextPage
                    THEN pr.comments.pageInfo.endCursor ELSE null]

RECURSIVE PrsNodes(_, _, _)
PrsNodes(f, nodes, i) ==
    IF i > Len(nodes) THEN f ELSE PrsNodes(PrsNode(f, nodes[i]), nodes, i + 1)

\* a mutant: the outer cursor is not moved to the next page
PrsAdvanceStuck(f, page_info) ==
    IF f.reviews_cursor # null THEN [f EXCEPT !.has_next_page = TRUE]
    ELSE IF f.comments_cursor # null THEN [f EXCEPT !.has_next_page = TRUE]
    ELSE [f EXCEPT !.has_next_page = page_info.hasNextPage]

\* the cursor-advance decision that ends a round
PrsAdvance(f, page_info) ==
    IF f.reviews_cursor # null THEN [f EXCEPT !.has_next_page = TRUE]
    ELSE IF f.comments_cursor # null THEN [f EXCEPT !.has_next_page = TRUE]
    ELSE IF page_info.hasNextPage
         THEN [f EXCEPT !.cursor = page_info.endCursor, !.has_next_page = TRUE]
    ELSE [f EXCEPT !.has_next_page = FALSE]

\* one round of "while has_next_page": one query and what is done with it
PrsRound(repo_name, since, f) ==
    LET results == PR_QUERY(repo_name, f.cursor, f.reviews_cursor, since, f.comments_cursor)
        walked == PrsNodes([f EXCEPT !.queries = @ + 1], results.nodes, 1)
    IN PrsAdvance(walked, results.pageInfo)

\* "while has_next_page" run to its end: the frame at the return, or, when
\* the locals come back to values they had before (the loop never ends), a
\* frame whose has_next_page is still TRUE
RECURSIVE PrsLoop(_, _, _, _)
PrsLoop(repo_name, since, f, seen) ==
    IF ~f.has_next_page \/ [f EXCEPT !.queries = 0] \in seen THEN f
    ELSE PrsLoop(repo_name, since, PrsRound(repo_name, since, f),
                 seen \cup {[f EXCEPT !.queries = 0]})

\* the frame query_prs ends with; it returns f.pull_requests
query_prs(repo_name, since) == PrsLoop(repo_name, since, PrsStart, {})

\* ---------------------------------------------------------- query_issues
IssuesStart ==
    [cursor |-> null, reviews_cursor |-> null, comments_cursor |-> null,
     has_next_page |-> TRUE, issues |-> EmptyDict, queries |-> 0]

IssuesNode(f, issue) ==
    IF issue.author = None THEN f
    ELSE
      LET stored == StoreIssue(f.issues, issue.id, issue.author, issue.createdAt) IN
      [f EXCEPT
         !.issues = [stored EXCEPT
                       ![issue.id].comments = @ \o AddedComments(issue.comments.nodes)],
         !.comments_cursor =
            IF issue.comments.pageInfo.hasNextPage
            THEN issue.comments.pageInfo.endCursor ELSE null]

RECURSIVE IssuesNodes(_, _, _)
IssuesNodes(f, nodes, i) ==
    IF i > Len(nodes) THEN f ELSE IssuesNodes(IssuesNode(f, nodes[i]), nodes, i + 1)

IssuesAdvance(f, page_info) ==
    IF f.comments_cursor # null THEN [f EXCEPT !.has_next_page = TRUE]
    ELSE IF page_info.hasNextPage
         THEN [f EXCEPT !.cursor = page_info.endCursor, !.has_next_page = TRUE]
    ELSE [f EXCEPT !.has_next_page = FALSE]

IssuesRound(repo_name, since, f) ==
    LET results == ISSUE_QUERY(repo_name, f.cursor, since, f.comments_cursor)
        walked == IssuesNodes([f EXCEPT !.queries = @ + 1], results.nodes, 1)
    IN IssuesAdvance(walked, results.pageInfo)

RECURSIVE IssuesLoop(_, _, _, _)
IssuesLoop(repo_name, since, f, seen) ==
    IF ~f.has_next_page \/ [f EXCEPT !.queries = 0] \in seen THEN f
    ELSE IssuesLoop(repo_name, since, IssuesRound(repo_name, since, f),
                    seen \cup {[f EXCEPT !.queries = 0]})

\* the frame query_issues ends with; it returns f.issues
query_issues(repo_name, since) == IssuesLoop(repo_name, since, IssuesStart, {})

\* ---------------------------------------------- query_org_repos_from_name
\* the locals of query_org_repos_from_name before its loop
OrgStart ==
    [cursor |-> null, has_next_page |-> TRUE, organization_repos |-> <<>>,
     queries |-> 0]

\* a mutant: an archived repository is skipped as well
OrgNodeActive(f, repo) ==
    IF repo.defaultBranchRef = None \/ repo.isArchived THEN f
    ELSE [f EXCEPT !.organization_repos = Append(@, repo.name)]

\* the body of "for repo in results['nodes']" for one node
OrgNode(f, repo) ==
    IF repo.defaultBranchRef = None THEN f
    ELSE [f EXCEPT !.organization_repos = Append(@, repo.name)]

RECURSIVE OrgNodes(_, _, _)
OrgNodes(f, nodes, i) ==
    IF i > Len(nodes) THEN f ELSE OrgNodes(OrgNode(f, nodes[i]), nodes, i + 1)

\* one round of "while has_next_page"
OrgRound(org_name, f) ==
    LET results == ORG_QUERY(org_name, f.cursor)
        walked == OrgNodes([f EXCEPT !.queries = @ + 1], results.nodes, 1)
    IN [walked EXCEPT !.cursor = results.pageInfo.endCursor,
                      !.has_next_page = results.pageInfo.hasNextPage]

RECURSIVE OrgLoop(_, _)
OrgLoop(org_name, f) ==
    IF ~f.has_next_page THEN f ELSE OrgLoop(org_name, OrgRound(org_name, f))

\* the list query_org_repos_from_name returns
query_org_repos_from_name(org_name) == OrgLoop(org_name, OrgStart).organization_repos

\* ------------------------------------------- histories of the paginators
\* The nested records of a history are fixed by their position; `bad` is the
\* position (0: none) of the record that carries a null.
ReviewNode(i, j, bad) ==
    [author |-> IF j = bad /\ i % 2 = 1 THEN None ELSE "bob",
     submittedAt |-> IF j = bad /\ i % 2 = 0 THEN NoDate ELSE j]

CommentNode(i, j, bad) ==
    [author |-> IF j = bad THEN None ELSE "bob", createdAt |-> j]

\* a pull request has no review, one full page or MaxReviews of them; the
\* same for its comments
PRShapes ==
    [author : {"alice", None},
     nr : {0, PageSize, MaxReviews}, nc : {0, PageSize, MaxComments}]

PRHistory(shapes, bad) ==
    [i \in 1..Len(shapes) |->
        [id |-> i, createdAt |-> i, author |-> shapes[i].author,
         reviews |-> [j \in 1..shapes[i].nr |-> ReviewNode(i, j, bad)],
         comments |-> [j \in 1..shapes[i].nc |-> CommentNode(i, j, bad)]]]

IssueShapes == [author : {"alice", None}, nc : 0..MaxComments]

IssueHistory(shapes, bad) ==
    [i \in 1..Len(shapes) |->
        [id |-> i, createdAt |-> i, author |-> shapes[i].author,
         comments |-> [j \in 1..shapes[i].nc |-> CommentNode(i, j, bad)]]]

SeqsUpTo(S, n) == UNION {[1..k -> S] : k \in 0..n}

TheRepo == "acme/widgets"

EmptyRemote == [r \in Repos |-> [prs |-> <<>>, issues |-> <<>>]]

\* ------------------------------------------------------ the dataset
\* '%d-%02d' % (date.year, date.month): the month a day lies in
MonthKey(date) == date \div DaysPerMonth

\* a mutant: a month key is read back as the month after it
MonthDateLater(datestr) == (datestr + 1) * DaysPerMonth

\* strptime(datestr, '%Y-%m').date(): the first day of a month
MonthDate(datestr) == datestr * DaysPerMonth

Kinds == {"prs_by_month", "reviews_by_month", "pr_comments_by_month",
          "issues_by_month", "issue_comments_by_month"}

\* AuthorCounts.__init__: zero for every month from 2013-01 to today's
AuthorCounts(day) == [k \in Kinds |-> [m \in 0..MonthKey(day) |-> 0]]

\* what an operation that raises KeyError yields
KeyError == [KeyError |-> TRUE]

\* AuthorCounts.increment_<kind>; a month that is no key raises KeyError
increment(counts, kind, date, activity) ==
    IF MonthKey(date) \in DOMAIN counts[kind]
    THEN [counts EXCEPT ![kind][MonthKey(date)] = @ + activity]
    ELSE KeyError

\* the dataset when no file exists
NewData(day) ==
    [last_updated |-> day, repos_visited |-> {}, author_contrib |-> EmptyDict]

NoFile == [exists |-> FALSE, complete |-> FALSE, last_updated |-> 0,
           repos_visited |-> {}, author_contrib |-> EmptyDict]

\* a file that holds the beginning of a dump, or nothing yet
Torn == [exists |-> TRUE, complete |-> FALSE, last_updated |-> 0,
         repos_visited |-> {}, author_contrib |-> EmptyDict]

\* the increments of one stored counter, month key by month key
RECURSIVE LoadMonths(_, _, _, _)
LoadMonths(counts, kind, stored, months) ==
    IF months = {} \/ counts = KeyError THEN counts
    ELSE LET m == CHOOSE x \in months : \A y \in months : x <= y IN
         LoadMonths(increment(counts, kind, MonthDate(m), stored[m]),
                    kind, stored, months \ {m})

RECURSIVE LoadKinds(_, _, _)
LoadKinds(counts, stored, kinds) ==
    IF kinds = {} \/ counts = KeyError THEN counts
    ELSE LET k == CHOOSE x \in kinds : TRUE IN
         LoadKinds(LoadMonths(counts, k, stored[k], DOMAIN stored[k]),
                   stored, kinds \ {k})

\* a mutant: the stored counts of an author are not read back
ForgetAuthor(stored, day) == AuthorCounts(day)

\* the AuthorCounts load_existing_data builds for one author of the file
LoadAuthor(stored, day) == LoadKinds(AuthorCounts(day), stored, Kinds)

\* a mutant: the loaded dataset is stamped with today
LoadStamped(f, day) ==
    [last_updated |-> day,
     repos_visited |-> f.repos_visited,
     author_contrib |->
        [a \in DOMAIN f.author_contrib |-> LoadAuthor(f.author_contrib[a], day)]]

\* load_existing_data: the dataset, or KeyError
load_existing_data(f, day) ==
    IF ~f.exists THEN NewData(day)
    ELSE IF ~f.complete THEN KeyError        \* json.load raises
    ELSE IF \E a \in DOMAIN f.author_contrib :
                LoadAuthor(f.author_contrib[a], day) = KeyError
         THEN KeyError
    ELSE [last_updated |-> f.last_updated,
          repos_visited |-> f.repos_visited,
          author_contrib |->
             [a \in DOMAIN f.author_contrib |-> LoadAuthor(f.author_contrib[a], day)]]

\* write_out_data: the file json.dump and os.rename leave at the path
write_out_data(data) ==
    [exists |-> TRUE, complete |-> TRUE, last_updated |-> data.last_updated,
     repos_visited |-> data.repos_visited,
     author_contrib |-> data.author_contrib]

\* write_out_data step by step, on the directory of the output file:
\* [path |-> the file at the output path, temp |-> the temporary file]
\* a mutant: the dump is written to the output path itself
DumpInPlace(disk) == [disk EXCEPT !.path = Torn]

\* line 496 and the start of line 497: the temporary file is created and
\* json.dump begins to fill it
NamedTemporaryFile(disk) == [disk EXCEPT !.temp = Torn]

\* line 497 ends: the whole dataset is in the temporary file
JsonDump(disk, data) == [disk EXCEPT !.temp = write_out_data(data)]

\* line 499: os.rename(f.name, full_path)
Rename(disk) == [path |-> disk.temp, temp |-> NoFile]

\* --------------------------------------------------------- aggregation
Activity(login, kind, date) == [login |-> login, kind |-> kind, date |-> date]

\* the increments main makes for one pull request, in order
PrActivity(pr) ==
    <<Activity(pr.login, "prs_by_month", pr.created_at)>>
    \o [i \in 1..Len(pr.reviews) |->
          Activity(pr.reviews[i].login, "reviews_by_month", pr.reviews[i].submitted_at)]
    \o [i \in 1..Len(pr.comments) |->
          Activity(pr.comments[i].login, "pr_comments_by_month", pr.comments[i].created_at)]

\* the increments main makes for one issue, in order
IssueActivity(issue) ==
    <<Activity(issue.login, "issues_by_month", issue.created_at)>>
    \o [i \in 1..Len(issue.comments) |->
          Activity(issue.comments[i].login, "issue_comments_by_month",
                   issue.comments[i].created_at)]

\* the increments of "for id, item in items.items()", in the dict's order
RECURSIVE ItemsActivity(_, _)
ItemsActivity(acts, ids) ==
    IF ids = {} THEN <<>>
    ELSE LET id == CHOOSE x \in ids : \A y \in ids : x <= y IN
         acts[id] \o ItemsActivity(acts, ids \ {id})

\* a mutant: every author starts from a fresh AuthorCounts
Count1Fresh(author_contrib, act, day) ==
    LET after == increment(AuthorCounts(day), act.kind, act.date, 1)
    IN IF after = KeyError THEN KeyError ELSE Put(author_contrib, act.login, after)

\* one increment: an author not yet in author_contrib gets a fresh AuthorCounts
Count1(author_contrib, act, day) ==
    LET counts == IF act.login \in DOMAIN author_contrib
                  THEN author_contrib[act.login] ELSE AuthorCounts(day)
        after == increment(counts, act.kind, act.date, 1)
    IN IF after = KeyError THEN KeyError ELSE Put(author_contrib, act.login, after)

RECURSIVE CountAll(_, _, _, _)
CountAll(author_contrib, acts, i, day) ==
    IF author_contrib = KeyError \/ i > Len(acts) THEN author_contrib
    ELSE CountAll(Count1(author_contrib, acts[i], day), acts, i + 1, day)

\* main, lines 553-568: author_contrib after the pull requests, or KeyError
CountPrs(author_contrib, prs, day) ==
    CountAll(author_contrib,
             ItemsActivity([id \in DOMAIN prs |-> PrActivity(prs[id])], DOMAIN prs),
             1, day)

\* a mutant: the issues of a repository are not counted
CountIssuesSkipped(author_contrib, issues, day) == author_contrib

\* main, lines 571-579: author_contrib after the issues, or KeyError
CountIssues(author_contrib, issues, day) ==
    CountAll(author_contrib,
             ItemsActivity([id \in DOMAIN issues |-> IssueActivity(issues[id])],
                           DOMAIN issues),
             1, day)

\* a mutant: every repository is queried from the stored date
ResumeStored(name, data) == data.last_updated

\* main, lines 547-550: the date both queries of a repository get
ResumeDate(name, data) ==
    IF name \notin data.repos_visited THEN Epoch ELSE data.last_updated

\* --------------------------------------------------- the remote history
\* no start is remembered: the last run completed, or the history has grown
NoAttempt == [killed |-> FALSE, file |-> NoFile, remote |-> EmptyRemote]

Records(r) ==
    Len(remote[r].prs) + Len(remote[r].issues)
    + SumLen(remote[r].prs, "reviews") + SumLen(remote[r].prs, "comments")
    + SumLen(remote[r].issues, "comments")

\* the remote history grows between the runs
CanGrow == pc = "idle" /\ Records("acme/widgets") + Records("acme/gears") < MaxRecords

\* somebody (or a since deleted account) opens a pull request
OpenPullRequest ==
    /\ CanGrow
    /\ \E r \in Repos, a \in {"alice", None} :
          /\ Len(remote[r].prs) < MaxRunItems
          /\ remote' = [remote EXCEPT ![r].prs = Append(@,
                [id |-> Len(@) + 1, createdAt |-> now, author |-> a,
                 reviews |-> <<>>, comments |-> <<>>])]
    /\ attempt' = NoAttempt
    /\ UNCHANGED <<now, file, pc, frame, qp, qi, runs, loaded, calls, apart>>

SubmitReview ==
    /\ CanGrow
    /\ \E r \in Repos : \E i \in DOMAIN remote[r].prs :
          /\ Len(remote[r].prs[i].reviews) < MaxRunNested
          /\ remote' = [remote EXCEPT ![r].prs[i].reviews =
                Append(@, [author |-> "bob", submittedAt |-> now])]
    /\ attempt' = NoAttempt
    /\ UNCHANGED <<now, file, pc, frame, qp, qi, runs, loaded, calls, apart>>

CommentOnPullRequest ==
    /\ CanGrow
    /\ \E r \in Repos : \E i \in DOMAIN remote[r].prs :
          /\ Len(remote[r].prs[i].comments) < MaxRunNested
          /\ remote' = [remote EXCEPT ![r].prs[i].comments =
                Append(@, [author |-> "bob", createdAt |-> now])]
    /\ attempt' = NoAttempt
    /\ UNCHANGED <<now, file, pc, frame, qp, qi, runs, loaded, calls, apart>>

OpenIssue ==
    /\ CanGrow
    /\ \E r \in Repos, a \in {"alice", None} :
          /\ Len(remote[r].issues) < MaxRunItems
          /\ remote' = [remote EXCEPT ![r].issues = Append(@,
                [id |-> Len(@) + 1, createdAt |-> now, author |-> a,
                 comments |-> <<>>])]
    /\ attempt' = NoAttempt
    /\ UNCHANGED <<now, file, pc, frame, qp, qi, runs, loaded, calls, apart>>

CommentOnIssue ==
    /\ CanGrow
    /\ \E r \in Repos : \E i \in DOMAIN remote[r].issues :
          /\ Len(remote[r].issues[i].comments) < MaxRunNested
          /\ remote' = [remote EXCEPT ![r].issues[i].comments =
                Append(@, [author |-> "bob", createdAt |-> now])]
    /\ attempt' = NoAttempt
    /\ UNCHANGED <<now, file, pc, frame, qp, qi, runs, loaded, calls, apart>>

\* midnight
Tick ==
    /\ pc = "idle"
    /\ now < MaxDay
    /\ now' = now + 1
    /\ UNCHANGED <<remote, file, pc, frame, qp, qi, hist, apart>>

\* ---------------------------------------------------------- invocations
\* repo.split('/') of the --repos entries the invocations use
split(repo) ==
    CASE repo = "acme/widgets" -> <<"acme", "widgets">>
      [] repo = "acme/gears" -> <<"acme", "gears">>
      [] repo = "widgets" -> <<"widgets">>
      [] repo = "acme/widgets/pulls" -> <<"acme", "widgets", "pulls">>

\* '%s/%s' % (org_name, repo_name)
FullName(org_name, repo_name) ==
    CHOOSE r \in Repos : split(r) = <<org_name, repo_name>>

NoOptions == [repos |-> <<>>, orgs |-> <<>>]

\* the command lines the collector is started with: the well-formed one
\* names a repository twice, which the expansion of its organization
\* returns as well
Invocations ==
    {NoOptions,
     [repos |-> <<"acme/widgets", "acme/widgets">>, orgs |-> <<"acme">>],
     [repos |-> <<"acme/gears", "widgets">>, orgs |-> <<"acme">>],
     [repos |-> <<"acme/widgets/pulls">>, orgs |-> <<>>]}

\* the organization the --orgs invocations name: an empty repository, and an
\* archived one, among its repositories
TheDirectory ==
    [o \in {"acme"} |->
       <<[name |-> "widgets", defaultBranchRef |-> "main", isArchived |-> FALSE],
         [name |-> "scratch", defaultBranchRef |-> None, isArchived |-> FALSE],
         [name |-> "gears", defaultBranchRef |-> "main", isArchived |-> TRUE]>>]

\* org_repos is kept as the full names with the number of times each is
\* held: a set holds a name once.
\* a mutant: org_repos[org] is a list, and the name is appended
append(org_repos, name) ==
    IF name \in DOMAIN org_repos
    THEN [org_repos EXCEPT ![name] = @ + 1]
    ELSE Put(org_repos, name, 1)

\* org_repos[org].add(repo): nothing changes when the set has the name
add(org_repos, name) ==
    IF name \in DOMAIN org_repos THEN org_repos ELSE Put(org_repos, name, 1)

\* the names of a sequence added one after the other (the loop over
\* options.repos; set.update with the list of an organization)
RECURSIVE update(_, _)
update(org_repos, names) ==
    IF names = <<>> THEN org_repos
    ELSE update(add(org_repos, Head(names)), Tail(names))

\* the full names of the entries of --repos
FullNames(repos) ==
    [i \in DOMAIN repos |-> FullName(split(repos[i])[1], split(repos[i])[2])]

\* a mutant: an entry that is not of the form org/repo is passed over
SetupReposLax(repos) ==
    [returns |-> FALSE,
     org_repos |-> update(EmptyDict,
                          FullNames(SelectSeq(repos, LAMBDA r: Len(split(r)) = 2)))]

\* main, lines 519-531: the loop over options.repos; it returns 1 when an
\* entry is not of the form org/repo, and else leaves org_repos
SetupRepos(repos) ==
    IF \E i \in DOMAIN repos : Len(split(repos[i])) # 2
    THEN [returns |-> TRUE, org_repos |-> EmptyDict]
    ELSE [returns |-> FALSE, org_repos |-> update(EmptyDict, FullNames(repos))]

\* main, lines 533-538: org_repos after the loop over options.orgs
RECURSIVE ExpandOrgs(_, _)
ExpandOrgs(org_repos, orgs) ==
    IF orgs = <<>> THEN org_repos
    ELSE LET names == query_org_repos_from_name(Head(orgs)) IN
         ExpandOrgs(update(org_repos,
                           [k \in DOMAIN names |-> FullName(Head(orgs), names[k])]),
                    Tail(orgs))

\* the repositories the loops at lines 542-543 have still to reach
Pending == DOMAIN todo

\* ------------------------------------------------------------------ main
\* the values of main's locals when no process runs
NoFrame ==
    /\ options' = NoOptions
    /\ today' = 0
    /\ output_data' = NewData(0)
    /\ todo' = EmptyDict
    /\ full_repo_name' = TheRepo
    /\ last_updated' = 0
    /\ qp' = PrsStart
    /\ qi' = IssuesStart

\* the process dies: of an uncaught KeyError, or killed; a temporary file it
\* was writing stays where it is (tmp is the one of the last process: no
\* process reads the temporary file of another)
Dies ==
    /\ pc' = "idle"
    /\ NoFrame
    /\ loaded' = NoFile
    /\ calls' = {}
    /\ attempt' = [attempt EXCEPT !.killed = TRUE]
    /\ UNCHANGED <<remote, now, directory, file, tmp, qo, gq>>

\* main, lines 502-512: the options are looked at, the dataset is loaded;
\* the new process has no temporary file
Start ==
    /\ pc = "idle"
    /\ runs < MaxRuns
    /\ \E o \in Invocations :
         IF o.repos = <<>> /\ o.orgs = <<>>
         THEN /\ pc' = "failed"
              /\ loaded' = file
              /\ UNCHANGED <<remote, now, file, frame, qp, qi, runs, calls,
                             attempt, apart>>
         ELSE IF load_existing_data(file, now) = KeyError
         THEN Dies /\ runs' = runs + 1
         ELSE /\ options' = o
              /\ runs' = IF SetupRepos(o.repos).returns THEN runs ELSE runs + 1
              /\ today' = now
              /\ output_data' = load_existing_data(file, now)
              /\ pc' = "targets"
              /\ loaded' = file
              /\ calls' = {}
              /\ attempt' = IF attempt.killed /\ attempt.remote = remote
                            THEN attempt
                            ELSE [killed |-> FALSE, file |-> file, remote |-> remote]
              /\ tmp' = NoFile
              /\ UNCHANGED <<remote, now, directory, file, todo, full_repo_name,
                             last_updated, qp, qi, qo, gq>>

\* main, lines 519-531: the --repos entries are split; return 1 on a bad one
SplitRepos ==
    /\ pc = "targets"
    /\ IF SetupRepos(options.repos).returns
       THEN /\ pc' = "failed"
            /\ todo' = todo
       ELSE /\ pc' = "orgs"
            /\ todo' = SetupRepos(options.repos).org_repos
    /\ UNCHANGED <<remote, now, file, options, today, output_data,
                   full_repo_name, last_updated, qp, qi, hist, apart>>

\* main, lines 533-538: the repositories of the --orgs organizations are
\* queried and added
QueryOrgs ==
    /\ pc = "orgs"
    /\ todo' = ExpandOrgs(todo, options.orgs)
    /\ calls' = calls \cup {<<"query_org_repos_from_name", options.orgs[i], null>> :
                               i \in DOMAIN options.orgs}
    /\ pc' = "repos"
    /\ UNCHANGED <<remote, now, file, options, today, output_data, full_repo_name,
                   last_updated, qp, qi, runs, loaded, attempt, apart>>

\* main, lines 542-552: the next repository, its date, the call of query_prs
NextRepository ==
    /\ pc = "repos"
    /\ \E r \in DOMAIN todo :
          /\ todo' = IF todo[r] > 1 THEN [todo EXCEPT ![r] = @ - 1]
                     ELSE [k \in DOMAIN todo \ {r} |-> todo[k]]
          /\ full_repo_name' = r
          /\ last_updated' = ResumeDate(r, output_data)
          /\ calls' = calls \cup {<<"query_prs", r, ResumeDate(r, output_data)>>}
    /\ qp' = PrsStart
    /\ pc' = "query_prs"
    /\ UNCHANGED <<remote, now, file, options, today, output_data, qi, runs,
                   loaded, attempt, apart>>

\* query_prs: one round of its loop
QueryPrsRound ==
    /\ pc = "query_prs"
    /\ qp.has_next_page
    /\ qp.queries < MaxQueries
    /\ qp' = PrsRound(full_repo_name, last_updated, qp)
    /\ UNCHANGED <<remote, now, file, pc, frame, qi, hist, apart>>

\* query_prs returns its mapping
QueryPrsReturn ==
    /\ pc = "query_prs"
    /\ ~qp.has_next_page
    /\ pc' = "prs"
    /\ UNCHANGED <<remote, now, file, frame, qp, qi, hist, apart>>

\* main, lines 553-570: the pull requests are counted, query_issues is called
CountPullRequests ==
    /\ pc = "prs"
    /\ IF CountPrs(output_data.author_contrib, qp.pull_requests, today) = KeyError
       THEN Dies /\ UNCHANGED runs
       ELSE /\ output_data' = [output_data EXCEPT !.author_contrib =
                                  CountPrs(@, qp.pull_requests, today)]
            /\ qi' = IssuesStart
            /\ calls' = calls \cup {<<"query_issues", full_repo_name, last_updated>>}
            /\ pc' = "query_issues"
            /\ UNCHANGED <<remote, now, file, options, today, todo, full_repo_name,
                           last_updated, qp, runs, loaded, attempt, apart>>

\* query_issues: one round of its loop
QueryIssuesRound ==
    /\ pc = "query_issues"
    /\ qi.has_next_page
    /\ qi.queries < MaxQueries
    /\ qi' = IssuesRound(full_repo_name, last_updated, qi)
    /\ UNCHANGED <<remote, now, file, pc, frame, qp, hist, apart>>

\* query_issues returns its mapping
QueryIssuesReturn ==
    /\ pc = "query_issues"
    /\ ~qi.has_next_page
    /\ pc' = "issues"
    /\ UNCHANGED <<remote, now, file, frame, qp, qi, hist, apart>>

\* main, lines 571-585: the issues are counted, the repository is marked
\* visited and write_out_data is called
CountIssuesAndWrite ==
    /\ pc = "issues"
    /\ IF CountIssues(output_data.author_contrib, qi.issues, today) = KeyError
       THEN Dies /\ UNCHANGED runs
       ELSE /\ output_data' = [output_data EXCEPT
                                 !.author_contrib = CountIssues(@, qi.issues, today),
                                 !.repos_visited = @ \cup {full_repo_name}]
            /\ pc' = "write"
            /\ UNCHANGED <<remote, now, file, options, today, todo, full_repo_name,
                           last_updated, qp, qi, hist, apart>>

\* main, lines 587-589: last_updated becomes today, write_out_data is called
WriteLastUpdated ==
    /\ pc = "repos"
    /\ todo = EmptyDict
    /\ output_data' = [output_data EXCEPT !.last_updated = today]
    /\ pc' = "last_write"
    /\ UNCHANGED <<remote, now, file, options, today, todo, full_repo_name,
                   last_updated, qp, qi, hist, apart>>

\* write_out_data is at work: in the loop, or for the last time
Writing == {"write", "dump", "rename"}

LastWriting == {"last_write", "last_dump", "last_rename"}

\* where a step of write_out_data leaves the process
AfterWrite ==
    [write |-> "dump", dump |-> "rename", rename |-> "repos",
     last_write |-> "last_dump", last_dump |-> "last_rename", last_rename |-> "done"]

\* write_out_data, line 496: the temporary file is there, json.dump begins
WriteTemporary ==
    /\ pc \in {"write", "last_write"}
    /\ file' = NamedTemporaryFile([path |-> file, temp |-> tmp]).path
    /\ tmp' = NamedTemporaryFile([path |-> file, temp |-> tmp]).temp
    /\ pc' = AfterWrite[pc]
    /\ UNCHANGED <<remote, now, directory, frame, qp, qi, qo, gq, hist>>

\* write_out_data, line 497: json.dump has written the whole dataset
WriteDump ==
    /\ pc \in {"dump", "last_dump"}
    /\ file' = JsonDump([path |-> file, temp |-> tmp], output_data).path
    /\ tmp' = JsonDump([path |-> file, temp |-> tmp], output_data).temp
    /\ pc' = AfterWrite[pc]
    /\ UNCHANGED <<remote, now, directory, frame, qp, qi, qo, gq, hist>>

\* write_out_data, line 499: the temporary file takes the output path
WriteRename ==
    /\ pc \in {"rename", "last_rename"}
    /\ file' = Rename([path |-> file, temp |-> tmp]).path
    /\ tmp' = Rename([path |-> file, temp |-> tmp]).temp
    /\ pc' = AfterWrite[pc]
    /\ UNCHANGED <<remote, now, directory, frame, qp, qi, qo, gq, hist>>

\* main returns 0 and the process ends
Exit ==
    /\ pc = "done"
    /\ pc' = "idle"
    /\ NoFrame
    /\ loaded' = NoFile
    /\ calls' = {}
    /\ attempt' = NoAttempt
    /\ UNCHANGED <<remote, now, file, runs, apart>>

\* main has returned 1 and the process ends
ExitFailed ==
    /\ pc = "failed"
    /\ pc' = "idle"
    /\ NoFrame
    /\ loaded' = NoFile
    /\ calls' = {}
    /\ attempt' = IF attempt.killed THEN attempt ELSE NoAttempt
    /\ UNCHANGED <<remote, now, file, runs, apart>>

\* the process is killed (SIGINT, kill) wherever it is
Kill ==
    /\ pc \notin {"idle", "done", "failed"}
    /\ Dies
    /\ UNCHANGED runs

\* no process, no file, nothing asked of the network
InitRest ==
    /\ directory = TheDirectory
    /\ tmp = NoFile
    /\ options = NoOptions
    /\ qo = OrgStart
    /\ gq = GraphqlStart(None)

Init ==
    /\ remote = EmptyRemote
    /\ now = 0
    /\ file = NoFile
    /\ pc = "idle"
    /\ today = 0
    /\ output_data = NewData(0)
    /\ todo = EmptyDict
    /\ full_repo_name = TheRepo
    /\ last_updated = 0
    /\ qp = PrsStart
    /\ qi = IssuesStart
    /\ runs = 0
    /\ loaded = NoFile
    /\ calls = {}
    /\ attempt = NoAttempt
    /\ InitRest

Next ==
    \/ OpenPullRequest \/ SubmitReview \/ CommentOnPullRequest
    \/ OpenIssue \/ CommentOnIssue \/ Tick
    \/ Start \/ SplitRepos \/ QueryOrgs \/ NextRepository
    \/ QueryPrsRound \/ QueryPrsReturn \/ CountPullRequests
    \/ QueryIssuesRound \/ QueryIssuesReturn \/ CountIssuesAndWrite
    \/ WriteLastUpdated \/ WriteTemporary \/ WriteDump \/ WriteRename
    \/ Exit \/ ExitFailed \/ Kill

Spec == Init /\ [][Next]_vars

\* the runs when no process is ever killed: every started run completes
NextCompleted ==
    \/ OpenPullRequest \/ SubmitReview \/ CommentOnPullRequest
    \/ OpenIssue \/ CommentOnIssue \/ Tick
    \/ Start \/ SplitRepos \/ QueryOrgs \/ NextRepository
    \/ QueryPrsRound \/ QueryPrsReturn \/ CountPullRequests
    \/ QueryIssuesRound \/ QueryIssuesReturn \/ CountIssuesAndWrite
    \/ WriteLastUpdated \/ WriteTemporary \/ WriteDump \/ WriteRename
    \/ Exit \/ ExitFailed

SpecCompleted == Init /\ [][NextCompleted]_vars

\* ------------------------------------------- the world does not stand still
\* midnight passes while a process is between two repositories
MidnightMeanwhile ==
    /\ pc = "repos"
    /\ now < MaxDay
    /\ now' = now + 1
    /\ UNCHANGED <<remote, file, pc, frame, qp, qi, hist, apart>>

\* a pull request is opened while a process is between two repositories
OpenedMeanwhile ==
    /\ pc = "repos"
    /\ Records("acme/widgets") + Records("acme/gears") < MaxRecords
    /\ \E r \in Repos :
          /\ Len(remote[r].prs) < MaxRunItems
          /\ remote' = [remote EXCEPT ![r].prs = Append(@,
                [id |-> Len(@) + 1, createdAt |-> now, author |-> "alice",
                 reviews |-> <<>>, comments |-> <<>>])]
    /\ attempt' = NoAttempt
    /\ UNCHANGED <<now, file, pc, frame, qp, qi, runs, loaded, calls, apart>>

NextClock == NextCompleted \/ MidnightMeanwhile \/ OpenedMeanwhile

SpecClock == Init /\ [][NextClock]_vars

\* ------------------------------------------- query_prs, round by round
\* one call query_prs(org, repo, token, '2013-01-01') on a drawn history
InitWalk(prs, issues, at) ==
    /\ remote = [EmptyRemote EXCEPT ![TheRepo] = [prs |-> prs, issues |-> issues]]
    /\ now = 0
    /\ file = NoFile
    /\ pc = at
    /\ today = 0
    /\ output_data = NewData(0)
    /\ todo = EmptyDict
    /\ full_repo_name = TheRepo
    /\ last_updated = Epoch
    /\ qp = PrsStart
    /\ qi = IssuesStart
    /\ runs = 1
    /\ loaded = NoFile
    /\ calls = {}
    /\ attempt = NoAttempt
    /\ InitRest

InitPrs ==
    \E shapes \in SeqsUpTo(PRShapes, MaxPRs), bad \in {0, 1, MaxReviews} :
        InitWalk(PRHistory(shapes, bad), <<>>, "query_prs")

NextPrs == QueryPrsRound \/ QueryPrsReturn

SpecPrs == InitPrs /\ [][NextPrs]_vars

\* ---------------------------------------- query_issues, round by round
InitIssues ==
    \E shapes \in SeqsUpTo(IssueShapes, MaxIssues), bad \in 0..MaxComments :
        InitWalk(<<>>, IssueHistory(shapes, bad), "query_issues")

NextIssues == QueryIssuesRound \/ QueryIssuesReturn

SpecIssues == InitIssues /\ [][NextIssues]_vars

\* ------------------------- either paginator, round by round, on a history
InitNested == InitPrs \/ InitIssues

NextNested == NextPrs \/ NextIssues

SpecNested == InitNested /\ [][NextNested]_vars

\* ----------------------------- query_org_repos_from_name, round by round
\* the repositories an organization can have: with or without a default
\* branch, archived or not
OrgRepositories ==
    [defaultBranchRef : {"main", None}, isArchived : BOOLEAN]

OrgListing(shapes) ==
    [i \in 1..Len(shapes) |->
       [name |-> i, defaultBranchRef |-> shapes[i].defaultBranchRef,
        isArchived |-> shapes[i].isArchived]]

InitOrg ==
    \E shapes \in SeqsUpTo(OrgRepositories, MaxOrgRepos) :
        /\ directory = [o \in {"acme"} |-> OrgListing(shapes)]
        /\ pc = "query_org_repos_from_name"
        /\ qo = OrgStart
        /\ remote = EmptyRemote /\ now = 0 /\ file = NoFile /\ tmp = NoFile
        /\ options = [repos |-> <<>>, orgs |-> <<"acme">>]
        /\ today = 0 /\ output_data = NewData(0) /\ todo = EmptyDict
        /\ full_repo_name = TheRepo /\ last_updated = 0
        /\ qp = PrsStart /\ qi = IssuesStart /\ gq = GraphqlStart(None)
        /\ runs = 1 /\ loaded = NoFile /\ calls = {} /\ attempt = NoAttempt

\* query_org_repos_from_name: one round of its loop
QueryOrgRound ==
    /\ pc = "query_org_repos_from_name"
    /\ qo.has_next_page
    /\ qo' = OrgRound(options.orgs[1], qo)
    /\ UNCHANGED <<remote, now, directory, file, tmp, pc, frame, qp, qi, gq, hist>>

\* query_org_repos_from_name returns its list
QueryOrgReturn ==
    /\ pc = "query_org_repos_from_name"
    /\ ~qo.has_next_page
    /\ pc' = "org_repos"
    /\ UNCHANGED <<remote, now, directory, file, tmp, frame, qp, qi, qo, gq, hist>>

NextOrg == QueryOrgRound \/ QueryOrgReturn

SpecOrg == InitOrg /\ [][NextOrg]_vars

\* ------------------------------------------------ graphql_query, pass by pass
\* the three queries graphql_query is called with
Queries == {"PR_QUERY", "ISSUE_QUERY", "ORG_QUERY"}

InitQuery ==
    \E query \in Queries :
        /\ gq = GraphqlStart(query)
        /\ pc = "graphql_query"
        /\ directory = TheDirectory /\ qo = OrgStart
        /\ remote = EmptyRemote /\ now = 0 /\ file = NoFile /\ tmp = NoFile
        /\ options = NoOptions
        /\ today = 0 /\ output_data = NewData(0) /\ todo = EmptyDict
        /\ full_repo_name = TheRepo /\ last_updated = 0
        /\ qp = PrsStart /\ qi = IssuesStart
        /\ runs = 1 /\ loaded = NoFile /\ calls = {} /\ attempt = NoAttempt

\* what graphql_query leaves alone
outside == <<remote, now, directory, file, tmp, pc, frame, qp, qi, qo, hist>>

\* a pass of the loop can begin
Posting == pc = "graphql_query" /\ gq.pc = "post" /\ gq.attempts < MaxAttempts

\* requests.post raises one of the exceptions the except clause names
PostFailsCaught ==
    /\ Posting
    /\ \E e \in Caught : gq' = GraphqlPass(gq, Raises(e))
    /\ UNCHANGED outside

\* requests.post raises another exception: the host cannot be reached
PostFailsOtherwise ==
    /\ Posting
    /\ gq' = GraphqlPass(gq, Raises("ConnectionError"))
    /\ UNCHANGED outside

\* the server answers with a status that is not 200
PostRefused ==
    /\ Posting
    /\ \E status_code \in {403, 502} : gq' = GraphqlPass(gq, Responds(status_code))
    /\ UNCHANGED outside

\* the server answers 200
PostAnswered ==
    /\ Posting
    /\ gq' = GraphqlPass(gq, Responds(200))
    /\ UNCHANGED outside

NextQuery == PostFailsCaught \/ PostFailsOtherwise \/ PostRefused \/ PostAnswered

SpecQuery == InitQuery /\ [][NextQuery]_vars

\* --------------------------------------------- claims on the paginators
\* the walk is over: query_prs, or query_issues, has returned
Returned == pc \in {"prs", "issues"}

\* the pull requests / issues of the walked repository the search returns
ServedPrs == Created(remote[TheRepo].prs, last_updated)

ServedIssues == Created(remote[TheRepo].issues, last_updated)

Occurrences(seq, v) == Cardinality({i \in DOMAIN seq : seq[i] = v})

\* no value occurs more often in `got` than in `all`
NoMoreThan(got, all) ==
    \A i \in DOMAIN got : Occurrences(got, got[i]) <= Occurrences(all, got[i])

\* C1: when query_prs returns, every pull request with a non-null author is
\* in the mapping with every review (non-null author and submittedAt) and
\* every comment (non-null author) of the remote history.
C1_NoRecordLost ==
    Returned =>
        \A i \in DOMAIN ServedPrs :
            ServedPrs[i].author # None =>
                /\ ServedPrs[i].id \in DOMAIN qp.pull_requests
                /\ qp.pull_requests[ServedPrs[i].id].reviews
                      = AddedReviews(ServedPrs[i].reviews)
                /\ qp.pull_requests[ServedPrs[i].id].comments
                      = AddedComments(ServedPrs[i].comments)

\* C2: after every round, the mapping holds only pull requests of the remote
\* history, and no review and no comment of a pull request is in its list
\* more often than the remote history has it.
C2_NoDuplicate ==
    \A id \in DOMAIN qp.pull_requests :
        \E i \in DOMAIN ServedPrs :
            /\ ServedPrs[i].id = id
            /\ \A k \in DOMAIN ServedPrs : ServedPrs[k].id = id => k = i
            /\ NoMoreThan(qp.pull_requests[id].reviews,
                          AddedReviews(ServedPrs[i].reviews))
            /\ NoMoreThan(qp.pull_requests[id].comments,
                          AddedComments(ServedPrs[i].comments))

\* C2 witness: the walk returned after it fetched the first outer page four
\* times for inner cursors, and recorded reviews and comments.
C2_Witness ==
    /\ Returned
    /\ qp.queries >= 4
    /\ qp.cursor = null
    /\ \E id \in DOMAIN qp.pull_requests :
          /\ qp.pull_requests[id].reviews # <<>>
          /\ qp.pull_requests[id].comments # <<>>

\* no pull request has a further page of reviews or of comments
NoFurtherPage ==
    \A i \in DOMAIN ServedPrs :
        /\ Len(ServedPrs[i].reviews) <= PageSize
        /\ Len(ServedPrs[i].comments) <= PageSize

\* the outer pages of the search: an empty result is one (empty) page
OuterPages ==
    IF Len(ServedPrs) = 0 THEN 1
    ELSE (Len(ServedPrs) + PageSize - 1) \div PageSize

\* C3: without a further inner page, query_prs issues one query per outer
\* page and then stops, with every pull request of a non-null author
\* recorded (once: the mapping is keyed by the pull request).
C3_OneQueryPerPage ==
    NoFurtherPage =>
        /\ qp.queries <= OuterPages
        /\ qp.has_next_page => qp.queries < OuterPages
        /\ ~qp.has_next_page =>
              /\ qp.queries = OuterPages
              /\ DOMAIN qp.pull_requests =
                    {ServedPrs[i].id : i \in {k \in DOMAIN ServedPrs :
                                                ServedPrs[k].author # None}}

\* C3 witness: three pull requests at two per page, walked in two queries.
C3_Witness ==
    /\ NoFurtherPage
    /\ Len(ServedPrs) = PageSize + 1
    /\ Returned
    /\ qp.queries = 2
    /\ Cardinality(DOMAIN qp.pull_requests) = PageSize + 1

\* C4: when query_issues returns, every issue with a non-null author is in
\* the mapping with every comment (non-null author) of the remote history,
\* each once.
C4_IssueComments ==
    Returned =>
        \A i \in DOMAIN ServedIssues :
            ServedIssues[i].author # None =>
                /\ ServedIssues[i].id \in DOMAIN qi.issues
                /\ qi.issues[ServedIssues[i].id].comments
                      = AddedComments(ServedIssues[i].comments)

\* ------------------------------------------------- claims on the runs
Months == 0..MonthKey(MaxDay)

\* every record of the remote history: its kind, its author, its date and
\* the author of the pull request or issue it belongs to
RemoteRecords ==
    UNION {
        {[repo |-> r, at |-> <<"pr", i, 0>>, kind |-> "prs_by_month",
          login |-> remote[r].prs[i].author, date |-> remote[r].prs[i].createdAt,
          parent |-> remote[r].prs[i].author,
          parentDate |-> remote[r].prs[i].createdAt] : i \in DOMAIN remote[r].prs}
        \cup UNION {
            {[repo |-> r, at |-> <<"pr", i, j>>, kind |-> "reviews_by_month",
              login |-> remote[r].prs[i].reviews[j].author,
              date |-> remote[r].prs[i].reviews[j].submittedAt,
              parent |-> remote[r].prs[i].author,
              parentDate |-> remote[r].prs[i].createdAt]
                 : j \in DOMAIN remote[r].prs[i].reviews}
            \cup
            {[repo |-> r, at |-> <<"pr", i, j>>, kind |-> "pr_comments_by_month",
              login |-> remote[r].prs[i].comments[j].author,
              date |-> remote[r].prs[i].comments[j].createdAt,
              parent |-> remote[r].prs[i].author,
              parentDate |-> remote[r].prs[i].createdAt]
                 : j \in DOMAIN remote[r].prs[i].comments}
            : i \in DOMAIN remote[r].prs}
        \cup
        {[repo |-> r, at |-> <<"issue", i, 0>>, kind |-> "issues_by_month",
          login |-> remote[r].issues[i].author, date |-> remote[r].issues[i].createdAt,
          parent |-> remote[r].issues[i].author,
          parentDate |-> remote[r].issues[i].createdAt] : i \in DOMAIN remote[r].issues}
        \cup UNION {
            {[repo |-> r, at |-> <<"issue", i, j>>, kind |-> "issue_comments_by_month",
              login |-> remote[r].issues[i].comments[j].author,
              date |-> remote[r].issues[i].comments[j].createdAt,
              parent |-> remote[r].issues[i].author,
              parentDate |-> remote[r].issues[i].createdAt]
                 : j \in DOMAIN remote[r].issues[i].comments}
            : i \in DOMAIN remote[r].issues}
        : r \in Repos}

\* the records of one author, kind and month that have an author and a date
RecordsOf(a, kind, m) ==
    {x \in RemoteRecords :
        /\ x.kind = kind /\ x.login = a
        /\ x.date # NoDate /\ MonthKey(x.date) = m}

\* the count a dataset file holds; 0 for an author or a month it does not have
Stored(f, a, kind, m) ==
    IF a \in DOMAIN f.author_contrib
    THEN IF m \in DOMAIN f.author_contrib[a][kind]
         THEN f.author_contrib[a][kind][m] ELSE 0
    ELSE 0

\* C5: after a complete first run, a pull request of a null author has added
\* to nobody's prs_by_month, and every review and comment on it is counted
\* for its own author.
C5_DeletedAuthor ==
    (pc = "done" /\ ~loaded.exists) =>
        /\ None \notin DOMAIN file.author_contrib
        /\ \A a \in Logins, m \in Months :
              /\ Stored(file, a, "prs_by_month", m)
                    <= Cardinality(RecordsOf(a, "prs_by_month", m))
              /\ \A kind \in {"reviews_by_month", "pr_comments_by_month"} :
                    Stored(file, a, kind, m)
                       >= Cardinality({x \in RecordsOf(a, kind, m) : x.parent = None})

\* C6: every query of a run gets '2013-01-01' for a repository that is not in
\* the repos_visited of the file loaded at the start, and that file's
\* last_updated for one that is; a finished run has made both queries for
\* every repository.
C6_ResumeDate ==
    /\ \A c \in calls :
          c[1] \in {"query_prs", "query_issues"} =>
          c[3] = IF c[2] \in loaded.repos_visited THEN loaded.last_updated ELSE Epoch
    /\ pc = "done" =>
          \A r \in Repos : \E d \in 0..MaxDay :
              {<<"query_prs", r, d>>, <<"query_issues", r, d>>} \subseteq calls

\* C6 witness: a finished run that queried a visited repository from a stored
\* date other than the epoch, and an unvisited one from the epoch.
C6_Witness ==
    /\ pc = "done"
    /\ loaded.last_updated # Epoch
    /\ \E r1, r2 \in Repos :
          /\ r1 \in loaded.repos_visited
          /\ r2 \notin loaded.repos_visited
          /\ <<"query_issues", r1, loaded.last_updated>> \in calls
          /\ <<"query_issues", r2, Epoch>> \in calls

\* C7: over runs that all complete, the persisted counters never hold more
\* than the remote history has records: no record is added to them twice.
C7_CountedAtMostOnce ==
    \A a \in Logins, kind \in Kinds, m \in Months :
        Stored(file, a, kind, m) <= Cardinality(RecordsOf(a, kind, m))

\* C8: after a completed run over repositories that were all visited before,
\* every record with an author, on a pull request or issue with an author,
\* is in the persisted counters.
C8_NewRecordsCounted ==
    (pc = "done" /\ loaded.exists /\ Repos \subseteq loaded.repos_visited) =>
        \A a \in Logins, kind \in Kinds, m \in Months :
            Stored(file, a, kind, m)
               >= Cardinality({x \in RecordsOf(a, kind, m) : x.parent # None})

\* what an uninterrupted run adds for the repositories `repos`
RECURSIVE CountRepos(_, _, _, _)
CountRepos(author_contrib, repos, data, day) ==
    IF repos = {} \/ author_contrib = KeyError THEN author_contrib
    ELSE LET r == CHOOSE x \in repos : TRUE
             since == ResumeDate(r, data)
             afterPrs == CountPrs(author_contrib, query_prs(r, since).pull_requests, day)
             afterIssues ==
                IF afterPrs = KeyError THEN KeyError
                ELSE CountIssues(afterPrs, query_issues(r, since).issues, day)
         IN CountRepos(afterIssues, repos \ {r}, data, day)

\* the file a single uninterrupted run leaves, started on file f
Uninterrupted(f, day) ==
    LET data == load_existing_data(f, day) IN
    [exists |-> TRUE, complete |-> TRUE, last_updated |-> day,
     repos_visited |-> data.repos_visited \cup Repos,
     author_contrib |-> CountRepos(data.author_contrib, Repos, data, day)]

\* C9: a run that completes after killed starts, on the same remote history,
\* leaves the counts a single uninterrupted run would have left.
C9_ResumeIdempotent ==
    (pc = "done" /\ attempt.killed /\ attempt.remote = remote) =>
        \A a \in Logins, kind \in Kinds, m \in Months :
            Stored(file, a, kind, m) = Stored(Uninterrupted(attempt.file, today), a, kind, m)

\* C10: from every file at the output path to the next one, no author is
\* removed and no count of any author, counter and month decreases.
C10_CountsNeverDecrease ==
    [][\A a \in DOMAIN file.author_contrib :
          /\ a \in DOMAIN file'.author_contrib
          /\ \A kind \in Kinds : \A m \in DOMAIN file.author_contrib[a][kind] :
                /\ m \in DOMAIN file'.author_contrib[a][kind]
                /\ file'.author_contrib[a][kind][m] >= file.author_contrib[a][kind][m]
      ]_vars

\* C10 witness: a later run has written over a file that held counts.
C10_Witness ==
    /\ pc \in {"repos", "done"}
    /\ loaded.exists
    /\ file # loaded
    /\ \E a \in DOMAIN loaded.author_contrib, kind \in Kinds, m \in Months :
          Stored(loaded, a, kind, m) > 0

\* C17: on every history, from wherever query_prs has got to, its loop comes
\* to its end: the locals never come back to values they had before.
C17_Terminates ==
    pc = "query_prs" =>
        ~PrsLoop(full_repo_name, last_updated, qp, {}).has_next_page

\* the response to the query of the round query_prs is about to make
PrsResponse ==
    PR_QUERY(full_repo_name, qp.cursor, qp.reviews_cursor, last_updated,
             qp.comments_cursor)

\* a step is a round of query_prs
PrsRoundStep == pc = "query_prs" /\ qp'.queries = qp.queries + 1

\* C21: a round that ends with more review pages to fetch advances neither
\* the comments cursor nor the outer cursor; one that ends with more comment
\* pages (and no review page) leaves the outer cursor; the outer cursor
\* moves only in a round that ends with both inner cursors null; the loop
\* ends only with both inner cursors null and no further outer page.
C21_CursorPriority ==
    [][PrsRoundStep =>
         /\ qp'.reviews_cursor # null =>
               /\ qp'.cursor = qp.cursor
               /\ qp'.comments_cursor \in {qp.comments_cursor, null}
         /\ (qp'.reviews_cursor = null /\ qp'.comments_cursor # null) =>
               qp'.cursor = qp.cursor
         /\ qp'.cursor # qp.cursor =>
               qp'.reviews_cursor = null /\ qp'.comments_cursor = null
         /\ ~qp'.has_next_page =>
               /\ qp'.reviews_cursor = null /\ qp'.comments_cursor = null
               /\ ~PrsResponse.pageInfo.hasNextPage
      ]_vars

\* the response to the query of the round query_issues is about to make
IssuesResponse ==
    ISSUE_QUERY(full_repo_name, qi.cursor, last_updated, qi.comments_cursor)

\* a step is a round of query_issues
IssuesRoundStep == pc = "query_issues" /\ qi'.queries = qi.queries + 1

\* the reviews / comments of a sub-page that carry no null, as records
ProperReviews(nodes) ==
    LET proper == {j \in DOMAIN nodes :
                      ~(nodes[j].author = None) /\ ~(nodes[j].submittedAt = NoDate)}
        at(n) == CHOOSE j \in proper : Cardinality({m \in proper : m < j}) = n - 1
    IN [n \in 1..Cardinality(proper) |->
          [login |-> nodes[at(n)].author, submitted_at |-> nodes[at(n)].submittedAt]]

ProperComments(nodes) ==
    LET proper == {j \in DOMAIN nodes : ~(nodes[j].author = None)}
        at(n) == CHOOSE j \in proper : Cardinality({m \in proper : m < j}) = n - 1
    IN [n \in 1..Cardinality(proper) |->
          [login |-> nodes[at(n)].author, created_at |-> nodes[at(n)].createdAt]]

\* no issue has a further page of comments
NoFurtherIssuePage ==
    \A i \in DOMAIN ServedIssues : Len(ServedIssues[i].comments) <= PageSize

\* C22: in every round of query_prs and of query_issues, what is recorded
\* for a pull request or issue of the page is exactly the reviews and
\* comments of its sub-page that carry no null (author, submittedAt), in
\* order: the null ones are never recorded, their siblings all are. A round
\* ends the loop only when no page is left, and a walk over a history
\* without further inner pages returns every sibling.
C22_NestedNullsSkipped ==
    [][/\ PrsRoundStep =>
            /\ \A k \in DOMAIN PrsResponse.nodes :
                  LET pr == PrsResponse.nodes[k] IN
                  pr.author # None =>
                     /\ pr.id \in DOMAIN qp'.pull_requests
                     /\ qp'.pull_requests[pr.id].reviews
                           = ProperReviews(pr.reviews.nodes)
                     /\ qp'.pull_requests[pr.id].comments
                           = IF pr.reviews.pageInfo.hasNextPage THEN <<>>
                             ELSE ProperComments(pr.comments.nodes)
            /\ ~qp'.has_next_page => ~PrsResponse.pageInfo.hasNextPage
       /\ IssuesRoundStep =>
            /\ \A k \in DOMAIN IssuesResponse.nodes :
                  LET issue == IssuesResponse.nodes[k] IN
                  issue.author # None =>
                     /\ issue.id \in DOMAIN qi'.issues
                     /\ qi'.issues[issue.id].comments
                           = ProperComments(issue.comments.nodes)
            /\ ~qi'.has_next_page => ~IssuesResponse.pageInfo.hasNextPage
       /\ (pc' = "prs" /\ NoFurtherPage) =>
            \A i \in DOMAIN ServedPrs :
               ServedPrs[i].author # None =>
                  /\ qp'.pull_requests[ServedPrs[i].id].reviews
                        = ProperReviews(ServedPrs[i].reviews)
                  /\ qp'.pull_requests[ServedPrs[i].id].comments
                        = ProperComments(ServedPrs[i].comments)
       /\ (pc' = "issues" /\ NoFurtherIssuePage) =>
            \A i \in DOMAIN ServedIssues :
               ServedIssues[i].author # None =>
                  qi'.issues[ServedIssues[i].id].comments
                     = ProperComments(ServedIssues[i].comments)
      ]_vars

\* C22 witness: query_prs returned from a history in which one pull request
\* has a review with a null author, another a review with a null
\* submittedAt, each a comment with a null author, and each of these has a
\* sibling, which is recorded.
C22_Witness ==
    /\ pc = "prs"
    /\ \E i, k \in DOMAIN ServedPrs :
          /\ ServedPrs[i].author # None /\ ServedPrs[k].author # None
          /\ \E j \in DOMAIN ServedPrs[i].reviews :
                ServedPrs[i].reviews[j].author = None
          /\ \E j \in DOMAIN ServedPrs[k].reviews :
                ServedPrs[k].reviews[j].submittedAt = NoDate
          /\ \A n \in {i, k} :
                /\ \E j \in DOMAIN ServedPrs[n].comments :
                      ServedPrs[n].comments[j].author = None
                /\ Len(qp.pull_requests[ServedPrs[n].id].reviews) = PageSize - 1
                /\ Len(qp.pull_requests[ServedPrs[n].id].comments) = PageSize - 1

\* C23: in a round of query_prs that ends with a further page of reviews to
\* fetch for the outer page, no comment is recorded for any pull request
\* of the page and the comments cursor keeps its value.
C23_ReviewsBeforeComments ==
    [][(PrsRoundStep /\ qp'.reviews_cursor # null) =>
          /\ qp'.comments_cursor = qp.comments_cursor
          /\ \A k \in DOMAIN PrsResponse.nodes :
                LET pr == PrsResponse.nodes[k] IN
                pr.author # None => qp'.pull_requests[pr.id].comments = <<>>
      ]_vars

\* ------------------------------------------------ claims on the dataset
\* the searches of a run started on the loaded file return nothing
NoNewActivity ==
    \A r \in Repos :
        /\ Created(remote[r].prs, ResumeDate(r, loaded)) = <<>>
        /\ Created(remote[r].issues, ResumeDate(r, loaded)) = <<>>

\* C11: a run that loads a dataset and, the API returning no activity, writes
\* it back leaves a file with the same authors, in which every count of the
\* loaded file is unchanged and every month key that is new holds zero.
C11_RoundTrip ==
    (pc = "done" /\ loaded.exists /\ NoNewActivity) =>
        /\ DOMAIN file.author_contrib = DOMAIN loaded.author_contrib
        /\ \A a \in DOMAIN loaded.author_contrib : \A kind \in Kinds :
              /\ DOMAIN loaded.author_contrib[a][kind]
                    \subseteq DOMAIN file.author_contrib[a][kind]
              /\ \A m \in DOMAIN file.author_contrib[a][kind] :
                    file.author_contrib[a][kind][m] =
                       IF m \in DOMAIN loaded.author_contrib[a][kind]
                       THEN loaded.author_contrib[a][kind][m] ELSE 0

\* C11 witness: such a run, on a file that holds a count, in a later month
\* than the file has keys for.
C11_Witness ==
    /\ pc = "done" /\ loaded.exists /\ NoNewActivity
    /\ \E a \in DOMAIN loaded.author_contrib, kind \in Kinds :
          /\ \E m \in DOMAIN loaded.author_contrib[a][kind] :
                loaded.author_contrib[a][kind][m] > 0
          /\ DOMAIN file.author_contrib[a][kind] # DOMAIN loaded.author_contrib[a][kind]

\* C12: whatever step is taken, a kill inside write_out_data included, the
\* file at the output path is absent or a complete dataset, and it changes
\* only to the complete dataset the process holds: never to a part of a dump.
C12_AtomicPersistence ==
    [][/\ file'.exists => file'.complete
       /\ file' # file => /\ pc \in {"rename", "last_rename"}
                          /\ file' = write_out_data(output_data)
      ]_vars

\* C12 witness: a process was killed while json.dump was filling its
\* temporary file; the file at the output path is the dataset written before.
C12_Witness ==
    /\ pc = "idle" /\ attempt.killed
    /\ tmp.exists /\ ~tmp.complete
    /\ file.exists /\ file.complete

\* ------------------------------------------------ claims on graphql_query
\* C13: graphql_query never ends by raising to its caller: whatever
\* requests.post does, it sleeps and posts the same query again, or returns
\* the decoded body of a response with status 200.
C13_NeverFails ==
    /\ gq.pc # "raised"
    /\ gq.posted \in {None, gq.query}
    /\ gq.pc = "returned" => gq.result = "response.json()"

\* ------------------------------------------------- claims on invocations
\* the options name no target, or a --repos entry is not of the form org/repo
Malformed(o) ==
    \/ o.repos = <<>> /\ o.orgs = <<>>
    \/ \E i \in DOMAIN o.repos : o.repos[i] \notin Repos

WithDefaultBranch ==
    SelectSeq(directory["acme"], LAMBDA repo : repo.defaultBranchRef # None)

\* the pages of the organization's repository list
OrgPages ==
    IF Len(directory["acme"]) = 0 THEN 1
    ELSE (Len(directory["acme"]) + PageSize - 1) \div PageSize

\* C15: query_org_repos_from_name makes one query per page of the list and
\* returns the names of the repositories with a default branch, archived or
\* not, each once and in the order of the list, and no other name.
C15_OrgRepositories ==
    pc = "org_repos" =>
        /\ qo.queries = OrgPages
        /\ qo.organization_repos =
              [i \in 1..Len(WithDefaultBranch) |-> WithDefaultBranch[i].name]

\* C15 witness: a returned walk of two pages, over an archived repository
\* with a default branch and a repository without one.
C15_Witness ==
    /\ pc = "org_repos"
    /\ qo.queries = 2
    /\ \E i, j \in DOMAIN directory["acme"] :
          /\ directory["acme"][i].isArchived
          /\ directory["acme"][i].defaultBranchRef # None
          /\ directory["acme"][i].name \in
                {qo.organization_repos[k] : k \in DOMAIN qo.organization_repos}
          /\ directory["acme"][j].defaultBranchRef = None

\* --------------------------------------------------- claims on the run
\* C16: every AuthorCounts of the running process has a zero or a count for
\* every month from 2013-01 to the month of today, in all five counters, and
\* neither loading the file nor counting what a query returned raises
\* KeyError.
C16_NoMissingMonth ==
    /\ \A a \in DOMAIN output_data.author_contrib : \A kind \in Kinds :
          DOMAIN output_data.author_contrib[a][kind] = 0..MonthKey(today)
    /\ pc = "idle" => load_existing_data(file, now) # KeyError
    /\ pc = "prs" =>
          CountPrs(output_data.author_contrib, qp.pull_requests, today) # KeyError
    /\ pc = "issues" =>
          CountIssues(output_data.author_contrib, qi.issues, today) # KeyError

\* the records of author a in month m that query_prs has put into prs, for
\* each counter
PrsCollected(prs, a, kind, m) ==
    CASE kind = "prs_by_month" ->
           Cardinality({id \in DOMAIN prs :
                           prs[id].login = a /\ MonthKey(prs[id].created_at) = m})
      [] kind = "reviews_by_month" ->
           Cardinality(UNION {{<<id, i>> : i \in {j \in DOMAIN prs[id].reviews :
                                  /\ prs[id].reviews[j].login = a
                                  /\ MonthKey(prs[id].reviews[j].submitted_at) = m}} :
                              id \in DOMAIN prs})
      [] kind = "pr_comments_by_month" ->
           Cardinality(UNION {{<<id, i>> : i \in {j \in DOMAIN prs[id].comments :
                                  /\ prs[id].comments[j].login = a
                                  /\ MonthKey(prs[id].comments[j].created_at) = m}} :
                              id \in DOMAIN prs})
      [] OTHER -> 0

\* the same for what query_issues has put into issues
IssuesCollected(issues, a, kind, m) ==
    CASE kind = "issues_by_month" ->
           Cardinality({id \in DOMAIN issues :
                           issues[id].login = a /\ MonthKey(issues[id].created_at) = m})
      [] kind = "issue_comments_by_month" ->
           Cardinality(UNION {{<<id, i>> : i \in {j \in DOMAIN issues[id].comments :
                                  /\ issues[id].comments[j].login = a
                                  /\ MonthKey(issues[id].comments[j].created_at) = m}} :
                              id \in DOMAIN issues})
      [] OTHER -> 0

\* the authors of the collected records
PrsAuthors(prs) ==
    {prs[id].login : id \in DOMAIN prs}
    \cup UNION {{prs[id].reviews[i].login : i \in DOMAIN prs[id].reviews}
                \cup {prs[id].comments[i].login : i \in DOMAIN prs[id].comments} :
                id \in DOMAIN prs}

IssuesAuthors(issues) ==
    {issues[id].login : id \in DOMAIN issues}
    \cup UNION {{issues[id].comments[i].login : i \in DOMAIN issues[id].comments} :
                id \in DOMAIN issues}

\* C18: counting the pull requests, and counting the issues, of a repository
\* adds to each author, counter and month exactly the number of collected
\* records of that author, kind and month; an author who was not in
\* author_contrib is there afterwards with all months of all counters; no
\* other author appears and nothing else changes.
C18_AggregationFrame ==
    [][/\ (pc = "prs" /\ pc' = "query_issues") =>
            /\ DOMAIN output_data'.author_contrib =
                  DOMAIN output_data.author_contrib \cup PrsAuthors(qp.pull_requests)
            /\ \A a \in DOMAIN output_data'.author_contrib : \A kind \in Kinds :
                  /\ DOMAIN output_data'.author_contrib[a][kind] = 0..MonthKey(today)
                  /\ \A m \in 0..MonthKey(today) :
                        output_data'.author_contrib[a][kind][m] =
                           Stored(output_data, a, kind, m)
                           + PrsCollected(qp.pull_requests, a, kind, m)
       /\ (pc = "issues" /\ pc' = "write") =>
            /\ DOMAIN output_data'.author_contrib =
                  DOMAIN output_data.author_contrib \cup IssuesAuthors(qi.issues)
            /\ \A a \in DOMAIN output_data'.author_contrib : \A kind \in Kinds :
                  /\ DOMAIN output_data'.author_contrib[a][kind] = 0..MonthKey(today)
                  /\ \A m \in 0..MonthKey(today) :
                        output_data'.author_contrib[a][kind][m] =
                           Stored(output_data, a, kind, m)
                           + IssuesCollected(qi.issues, a, kind, m)
      ]_vars

\* C18 witness: the pull requests of a repository have just been counted: an
\* author the loaded dataset did not have got his first count, next to an
\* author it had, in a month that is not the first.
C18_Witness ==
    /\ pc = "query_issues"
    /\ MonthKey(today) > 0
    /\ \E a, b \in DOMAIN output_data.author_contrib :
          /\ a \in DOMAIN loaded.author_contrib
          /\ b \notin DOMAIN loaded.author_contrib
          /\ \E m \in Months : PrsCollected(qp.pull_requests, b, "reviews_by_month", m) > 0
          /\ \E m \in Months : Stored(loaded, a, "prs_by_month", m) > 0

\* what the complete walks of repository r, from the date a run started on
\* the loaded file gives them, collect for author a, counter kind, month m
RepoCollected(r, a, kind, m) ==
    PrsCollected(query_prs(r, ResumeDate(r, loaded)).pull_requests, a, kind, m)
    + IssuesCollected(query_issues(r, ResumeDate(r, loaded)).issues, a, kind, m)

RECURSIVE ReposCollected(_, _, _, _)
ReposCollected(repos, a, kind, m) ==
    IF repos = {} THEN 0
    ELSE LET r == CHOOSE x \in repos : TRUE IN
         RepoCollected(r, a, kind, m) + ReposCollected(repos \ {r}, a, kind, m)

\* C19: the file at the output path changes only when write_out_data ends,
\* after a repository or after the last one; both walks of the repository
\* just processed have then come to their end, and the dataset written has
\* in repos_visited the repositories of the loaded file and those processed
\* by this run, and in its counts those of the loaded file plus everything
\* the complete walks of exactly the processed repositories collect.
C19_Checkpoints ==
    [][/\ file' # file => pc \in {"rename", "last_rename"}
       /\ (pc \in {"rename", "last_rename"} /\ pc' \in {"repos", "done"}) =>
            /\ pc = "last_rename" => Pending = {}
            /\ ~qp.has_next_page /\ ~qi.has_next_page
            /\ file'.repos_visited = loaded.repos_visited \cup (Repos \ Pending)
            /\ \A a \in Logins \cup DOMAIN file'.author_contrib :
                  \A kind \in Kinds, m \in Months :
                     Stored(file', a, kind, m) =
                        Stored(loaded, a, kind, m)
                        + ReposCollected(Repos \ Pending, a, kind, m)
      ]_vars

\* C19 witness: a process was killed after the write that follows its first
\* repository: the file has that repository, with a count, and not the other.
C19_Witness ==
    /\ pc = "idle" /\ attempt.killed
    /\ file.exists
    /\ file.repos_visited # {} /\ file.repos_visited # Repos
    /\ \E a \in Logins, kind \in Kinds, m \in Months : Stored(file, a, kind, m) > 0

\* C20: a dataset written after a repository carries the last_updated the
\* run got when it loaded (that of the file, or today when there was no
\* file); the last write, when no repository is left, carries today; and the
\* last_updated of an existing file changes at no other step.
C20_LastUpdated ==
    [][/\ (pc = "rename" /\ pc' = "repos") =>
            file'.last_updated =
               IF loaded.exists THEN loaded.last_updated ELSE today
       /\ (pc = "last_rename" /\ pc' = "done") =>
            Pending = {} /\ file'.last_updated = today
       /\ (file.exists /\ file'.last_updated # file.last_updated) =>
            pc = "last_rename"
      ]_vars

\* C20 witness: a run started on a dataset of an earlier day has written
\* after its first repository; the file still carries the earlier day.
C20_Witness ==
    /\ pc = "repos" /\ Pending # Repos /\ Pending # {}
    /\ loaded.exists /\ loaded.last_updated < today
    /\ file.last_updated = loaded.last_updated
    /\ file.repos_visited = loaded.repos_visited \cup (Repos \ Pending)

\* ------------------------------------------------- claims on the targets
\* the calls of `query` this run has made for repository r
QueriesOf(query, r) == {c \in calls : c[1] = query /\ c[2] = r}

\* the repositories the expansion of the --orgs organizations returns
Expanded ==
    UNION {{FullName(options.orgs[i], query_org_repos_from_name(options.orgs[i])[k]) :
               k \in DOMAIN query_org_repos_from_name(options.orgs[i])} :
           i \in DOMAIN options.orgs}

\* C24: within a run a repository is a target once, however often the
\* options lead to it: it is held once while pending and has then not been
\* queried; query_prs and query_issues are called at most once for it, and
\* exactly once by the end of the run; and the run adds to no count more
\* than the remote history has records for it.
C24_OncePerRun ==
    /\ \A r \in Pending : todo[r] = 1 /\ QueriesOf("query_prs", r) = {}
    /\ \A r \in Repos :
          /\ Cardinality(QueriesOf("query_prs", r)) <= 1
          /\ Cardinality(QueriesOf("query_issues", r)) <= 1
          /\ pc = "done" =>
                /\ Cardinality(QueriesOf("query_prs", r)) = 1
                /\ Cardinality(QueriesOf("query_issues", r)) = 1
    /\ pc # "idle" =>
          \A a \in Logins, kind \in Kinds, m \in Months :
             Stored(file, a, kind, m) - Stored(loaded, a, kind, m)
                <= Cardinality(RecordsOf(a, kind, m))

\* C24 witness: a run is complete whose --repos named a repository twice
\* that the expansion of its --orgs organization returned as well; the
\* repository was queried, and the run added a count.
C24_Witness ==
    /\ pc = "done"
    /\ \E i, j \in DOMAIN options.repos :
          /\ i # j /\ options.repos[i] = options.repos[j]
          /\ options.repos[i] \in Expanded
          /\ QueriesOf("query_prs", options.repos[i]) # {}
          /\ remote[options.repos[i]].prs # <<>>
    /\ \E a \in Logins, kind \in Kinds, m \in Months :
          Stored(file, a, kind, m) > Stored(loaded, a, kind, m)

====
